---- MODULE Spec2Model ----
(***************************************************************************)
(* utee (src/utee.c): the zero-copy fan-out engine utee(), with muxpipe(), *)
(* drain(), spliceall(), xpipe(), swapwindow(), writeout() and discard().  *)
(*                                                                         *)
(* Bytes are not stored one by one.  The source is the byte range [0, L);  *)
(* the content of a pipe or of a destination is a sequence of extents      *)
(* <<lo, hi>> (the source bytes lo .. hi-1), adjacent extents merged, so a *)
(* destination holds exactly the source iff its content is <<0, L>>.       *)
(* Array indexes are zero-based, as in the C code.                         *)
(*                                                                         *)
(* The kernel is the environment: tee() and splice() may transfer less     *)
(* than asked (Amounts), fail, or find a pipe empty or full; pipe() may    *)
(* fail; every F_SETPIPE_SZ is taken to succeed, so a pipe holds PIPE_SZ   *)
(* bytes; mode() is taken to succeed (it exits the process otherwise).     *)
(*                                                                         *)
(* Of main() the model has what comes before the call of utee(): the       *)
(* append-mode precondition and the destination list out[], whose files    *)
(* open() is taken to create.                                              *)
(***************************************************************************)
EXTENDS Integers, Sequences, FiniteSets, TLC

\* ---------------------------------------------------------------- bounds
MaxOut == 3        \* destinations of a run of Spec: 1 .. MaxOut
MaxLen == 2        \* source length of a run of Spec: 0 .. MaxLen granules
MaxNaps == 1       \* usleep() calls followed within one muxpipe pass
MaxDup == 1        \* a run is followed while every content has at most
                   \* MaxDup extents (a run without drain pairs on an input
                   \* of one granule has no choice of sizes and is followed
                   \* up to Cap)
MaxFail == 1       \* failing splice() calls of drain followed in one run

\* ------------------------------------------------------ program constants
WINDOW == 8 * 1024 * 1024
PIPE_SZ == 1048576               \* 0x100000, the F_SETPIPE_SZ argument
INT_MAX == 2147483647
SSIZE_MAX == 2147483647          \* ILP32 value; only "above every size" matters
STDIN_FILENO == 0
STDOUT_FILENO == 1
EXIT_FAILURE == 1

\* transfers are followed in steps of half a pipe: a full pipe can go in one
\* transfer or in two short ones
Granule == PIPE_SZ \div 2

\* the longest input of a run, and the byte count a run is followed to
LongLen == (5 * WINDOW) \div 2
Cap == LongLen + PIPE_SZ

\* what an unassigned slot of a malloc()ed array may hold when it is read
Garbage == {-1, STDIN_FILENO, STDOUT_FILENO}

\* --------------------------------------------------------------- extents
RECURSIVE Size(_)
Size(b) == IF b = <<>> THEN 0 ELSE (Head(b)[2] - Head(b)[1]) + Size(Tail(b))

RECURSIVE Take(_, _)
Take(b, k) ==
    IF k = 0 \/ b = <<>> THEN <<>>
    ELSE LET e == Head(b)
             n == e[2] - e[1]
         IN  IF n <= k THEN <<e>> \o Take(Tail(b), k - n)
             ELSE << <<e[1], e[1] + k>> >>

RECURSIVE Drop(_, _)
Drop(b, k) ==
    IF k = 0 \/ b = <<>> THEN b
    ELSE LET e == Head(b)
             n == e[2] - e[1]
         IN  IF n <= k THEN Drop(Tail(b), k - n)
             ELSE << <<e[1] + k, e[2]>> >> \o Tail(b)

Cat(a, b) ==
    IF a = <<>> THEN b
    ELSE IF b = <<>> THEN a
    ELSE IF a[Len(a)][2] = b[1][1]
         THEN SubSeq(a, 1, Len(a) - 1) \o << <<a[Len(a)][1], b[1][2]>> >> \o Tail(b)
         ELSE a \o b

\* the source's bytes [0, n) as a content
Whole(n) == IF n = 0 THEN <<>> ELSE << <<0, n>> >>

\* the sizes one transfer of at most avail bytes may report
Amounts(avail) ==
    {a \in {Granule, avail} : a > 0 /\ a <= avail}

MinOf(a, b) == IF a < b THEN a ELSE b

\* ----------------------------------------------------------------- state
VARIABLES
    srcFifo,            \* S_ISFIFO(mode(in))
    outFifo,            \* i |-> S_ISFIFO(mode(out[i])), i in 0 .. nout-1
    g_force_no_thrash,
    L,                  \* length of the input
    o_append,           \* fcntl(STDOUT_FILENO, F_GETFL) & O_APPEND
    exitcode,           \* <<>>, or the argument of the exit() main made
    errout,             \* what main wrote to stderr
    pc,
    ok, copyin, origin, originpipe,
    teeto, splicefrom, spliceto, ntee, nsplice,
    ri,                 \* i of the relay loop (lines 251-256)
    junk,               \* what spliceto[0] holds while it is unassigned
    written, wfilled, widx,
    mi, min, teedv, naps,   \* muxpipe: i, min, the tee results of the pass
    teed,
    di, dlen, moved, dfail, \* drain: i; spliceall: len; per pair of this chunk
    open, created, closes,  \* descriptor table, engine-made fds, close() calls
    peer,               \* write end |-> read end of the pipes the engine made
    pbuf,               \* read end |-> content of a pipe
    recv,               \* destination fd |-> content received
    srcoff,             \* bytes that have left the source so far
    calls,              \* the writeout() / discard() calls, in order
    nfails,             \* the splice() calls of drain that failed in this run
    everFull            \* wfilled >= WINDOW held at some point of this run

cfgvars == <<srcFifo, outFifo, g_force_no_thrash, L, o_append>>
mainvars == <<exitcode, errout>>
topovars == <<copyin, origin, originpipe, teeto, splicefrom, spliceto, ntee, nsplice, ri, junk>>
winvars == <<written, wfilled, widx, calls, everFull>>
muxvars == <<mi, min, teedv, naps, teed>>
drainvars == <<di, dlen, moved, dfail, nfails>>
fdvars == <<open, created, closes, peer>>
datavars == <<pbuf, recv, srcoff>>
vars == <<cfgvars, mainvars, pc, ok, topovars, winvars, muxvars, drainvars, fdvars, datavars>>

nout == Len(outFifo)
\* main(): out[0] is standard output, the others come from open()
out(i) == IF i = 0 THEN STDOUT_FILENO ELSE STDOUT_FILENO + 1 + i
OutFds == {out(i) : i \in 0 .. nout - 1}

\* pipe(): the two lowest descriptors not in use
PipeFds(op) ==
    LET r == CHOOSE n \in 0 .. Cardinality(op) : n \notin op /\ \A m \in 0 .. n - 1 : m \in op
        w == CHOOSE n \in 0 .. Cardinality(op) + 1 :
                 n \notin op \cup {r} /\ \A m \in 0 .. n - 1 : m \in op \cup {r}
    IN  <<r, w>>

\* the destinations that are not pipes, in order (lines 237-242)
RECURSIVE Terminals(_)
Terminals(i) ==
    IF i >= nout THEN <<>>
    ELSE (IF ~outFifo[i + 1] THEN <<out(i)>> ELSE <<>>) \o Terminals(i + 1)

\* the destinations that are pipes, in order (lines 261-266)
RECURSIVE Fifos(_)
Fifos(i) ==
    IF i >= nout THEN <<>>
    ELSE (IF outFifo[i + 1] THEN <<out(i)>> ELSE <<>>) \o Fifos(i + 1)

\* a C array filled from index 0
Arr(s) == [k \in 0 .. Len(s) - 1 |-> s[k + 1]]

RECURSIVE FifoSeqs(_)
FifoSeqs(n) ==
    IF n = 0 THEN {<<>>}
    ELSE {Append(s, b) : s \in FifoSeqs(n - 1), b \in BOOLEAN}

InitRun(topologies, lens) ==
    /\ srcFifo \in BOOLEAN
    /\ outFifo \in topologies
    /\ g_force_no_thrash \in BOOLEAN
    /\ L \in lens
    /\ o_append \in BOOLEAN
    /\ exitcode = <<>> /\ errout = <<>>
    /\ pc = "main"
    /\ ok = FALSE
    /\ copyin = FALSE /\ origin = 0 /\ originpipe = <<>> /\ junk = -1
    /\ teeto = <<>> /\ splicefrom = <<>> /\ spliceto = <<>>
    /\ ntee = 0 /\ nsplice = 0 /\ ri = 0
    /\ written = 0 /\ wfilled = 0 /\ widx = 0
    /\ mi = 0 /\ min = SSIZE_MAX /\ teedv = <<>> /\ naps = 0 /\ teed = 0
    /\ di = 0 /\ dlen = 0 /\ moved = <<>> /\ dfail = <<>>
    /\ open = {STDIN_FILENO, STDOUT_FILENO, STDOUT_FILENO + 1} \cup OutFds
    /\ created = {} /\ closes = {} /\ peer = <<>>
    /\ pbuf = IF srcFifo THEN (STDIN_FILENO :> <<>>) ELSE <<>>
    /\ recv = [fd \in OutFds |-> <<>>]
    /\ srcoff = 0
    /\ calls = <<>>
    /\ nfails = 0 /\ everFull = FALSE

Init == InitRun(UNION {FifoSeqs(n) : n \in 1 .. MaxOut},
               {k * Granule : k \in 0 .. MaxLen})

\* ------------------------------------------------------------------ main
\* a main() that does not look at the flags of standard output
AppendModeIgnored == FALSE

\* main(), line 379
AppendMode == o_append

\* main(), lines 378-410, up to the call of utee()
Main ==
    /\ pc = "main"
    /\ IF AppendMode
       THEN /\ errout' = Append(errout, "can't output to an append-mode file, use regular tee")
            /\ exitcode' = <<EXIT_FAILURE>>
            /\ pc' = "exit"
       ELSE /\ pc' = "start"
            /\ UNCHANGED mainvars
    /\ UNCHANGED <<cfgvars, ok, topovars, winvars, muxvars, drainvars, fdvars, datavars>>

\* ------------------------------------------------------------- topology
\* the relay loop starts at index 1: pair 0 drains the origin (line 251)
FirstRelayZero == 1 - 1

FirstRelay == 1

\* utee(), lines 204-245: the origin conduit and the splice output array
Setup ==
    /\ pc = "start"
    /\ copyin' = ~srcFifo
    /\ \/ /\ ~srcFifo                       \* pipe(originpipe) < 0: return -1
          /\ pc' = "ret"
          /\ UNCHANGED <<origin, originpipe, spliceto, nsplice, splicefrom, ri,
                         junk, fdvars, pbuf>>
       \/ /\ pc' = "relays"
          /\ LET p == PipeFds(open)
             IN  IF ~srcFifo
                 THEN /\ originpipe' = p
                      /\ origin' = p[1]
                      /\ open' = open \cup {p[1], p[2]}
                      /\ created' = created \cup {p[1], p[2]}
                      /\ peer' = (p[2] :> p[1]) @@ peer
                      /\ pbuf' = (p[1] :> <<>>) @@ pbuf
                 ELSE /\ origin' = STDIN_FILENO
                      /\ UNCHANGED <<originpipe, open, created, peer, pbuf>>
          /\ spliceto' = Arr(Terminals(0))
          /\ nsplice' = Len(Terminals(0))
          /\ junk' \in (IF nsplice' = 0 THEN Garbage ELSE {-1})
          /\ splicefrom' = (0 :> origin')
          /\ ri' = FirstRelay
          /\ UNCHANGED closes
    /\ UNCHANGED <<cfgvars, mainvars, ok, teeto, ntee, winvars, muxvars, drainvars, recv, srcoff>>

\* xpipe(), lines 180-191, as used by one round of the loop of lines 251-256
XPipe ==
    /\ pc = "relays"
    /\ ri < nsplice
    /\ \/ /\ pc' = "cleanup"                \* p.fd.in == 0: goto error
          /\ UNCHANGED <<teeto, ntee, splicefrom, ri, fdvars, pbuf>>
       \/ /\ LET p == PipeFds(open)
             IN  /\ teeto' = (ntee :> p[2]) @@ teeto
                 /\ splicefrom' = (ri :> p[1]) @@ splicefrom
                 /\ open' = open \cup {p[1], p[2]}
                 /\ created' = created \cup {p[1], p[2]}
                 /\ peer' = (p[2] :> p[1]) @@ peer
                 /\ pbuf' = (p[1] :> <<>>) @@ pbuf
          /\ ntee' = ntee + 1
          /\ ri' = ri + 1
          /\ UNCHANGED <<pc, closes>>
    /\ UNCHANGED <<cfgvars, mainvars, ok, copyin, origin, originpipe, spliceto, nsplice, junk,
                   winvars, muxvars, drainvars, recv, srcoff>>

\* the top of the while (1) of line 273
LoopTop == IF copyin THEN "fill" ELSE "mux"

\* utee(), lines 258-270: the output pipes are tee targets themselves
PipeTargets ==
    /\ pc = "relays"
    /\ ri >= nsplice
    /\ teeto' = [k \in 0 .. ntee + Len(Fifos(0)) - 1 |->
                    IF k < ntee THEN teeto[k] ELSE Fifos(0)[k - ntee + 1]]
    /\ ntee' = ntee + Len(Fifos(0))
    /\ written' = 0 /\ wfilled' = 0 /\ widx' = 0
    /\ mi' = 0 /\ min' = SSIZE_MAX /\ teedv' = <<>> /\ naps' = 0
    /\ pc' = LoopTop
    /\ UNCHANGED <<cfgvars, mainvars, ok, copyin, origin, originpipe, splicefrom, spliceto,
                   nsplice, ri, junk, calls, everFull, teed, drainvars, fdvars, datavars>>

\* ---------------------------------------------------------- input adapter
\* the writer at the other end of a pipe source still holds it open
WriterOpen == IF copyin THEN TRUE ELSE srcoff < L

\* utee(), lines 276-287
InputSplice ==
    /\ pc = "fill"
    /\ \/ /\ pc' = "cleanup"                \* rcvd == -1: goto error
          /\ UNCHANGED datavars
       \/ /\ srcoff = L                     \* rcvd == 0: break
          /\ pc' = "flush"
          /\ UNCHANGED datavars
       \/ \E rcvd \in Amounts(MinOf(MinOf(L - srcoff, PIPE_SZ - Size(pbuf[origin])),
                                    INT_MAX)) :
             /\ pbuf' = [pbuf EXCEPT ![origin] = Cat(@, << <<srcoff, srcoff + rcvd>> >>)]
             /\ srcoff' = srcoff + rcvd
             /\ pc' = "mux"
             /\ UNCHANGED recv
    /\ UNCHANGED <<cfgvars, mainvars, ok, topovars, winvars, muxvars, drainvars, fdvars>>

\* the process that writes into a pipe source; what it writes while the
\* engine is elsewhere is first looked at by the next tee(), so its writes
\* are placed there
Produce ==
    /\ srcFifo
    /\ pc = "mux"
    /\ \E k \in Amounts(MinOf(L - srcoff, PIPE_SZ - Size(pbuf[STDIN_FILENO]))) :
          /\ pbuf' = [pbuf EXCEPT ![STDIN_FILENO] = Cat(@, << <<srcoff, srcoff + k>> >>)]
          /\ srcoff' = srcoff + k
    /\ UNCHANGED <<cfgvars, mainvars, pc, ok, topovars, winvars, muxvars, drainvars, fdvars, recv>>

\* ------------------------------------------------------------ multiplexer
\* free room of a tee target the engine made; an output pipe's room is up
\* to its reader
Room(t) == IF t \in DOMAIN peer THEN PIPE_SZ - Size(pbuf[peer[t]]) ELSE PIPE_SZ

\* a content has more extents than a run is followed for
Broken ==
    \/ \E fd \in DOMAIN recv : Len(recv[fd]) > MaxDup
    \/ \E fd \in DOMAIN pbuf : Len(pbuf[fd]) > MaxDup

\* muxpipe(), line 161
MuxReturn(m) == IF m = SSIZE_MAX THEN 0 ELSE m

\* a muxpipe() that keeps the last tee() result instead of the least
NewMinLast(m, t) == t

\* muxpipe(), lines 154-156
NewMin(m, t) == IF t < m THEN t ELSE m

\* utee() after muxpipe() returned r > 0 (lines 290-298): drain() begins
BeginDrain(r) ==
    /\ teed' = r
    /\ di' = 0
    /\ dlen' = r
    /\ moved' = [k \in 0 .. nsplice - 1 |-> 0]
    /\ dfail' = [k \in 0 .. nsplice - 1 |-> FALSE]
    /\ pc' = IF nsplice = 0 THEN "window" ELSE "drain"

\* muxpipe() called with nout = 0: the loop body never runs (lines 136-161)
MuxNone ==
    /\ pc = "mux"
    /\ ntee = 0
    /\ IF MuxReturn(min) = 0
       THEN pc' = "flush" /\ UNCHANGED <<teed, di, dlen, moved, dfail>>
       ELSE BeginDrain(MuxReturn(min))
    /\ UNCHANGED <<cfgvars, mainvars, ok, topovars, winvars, mi, min, teedv, naps, nfails,
                   fdvars, datavars>>

\* a muxpipe() that gives up on a target that is not ready and goes on
RetryNextTarget(i) == i + 1

\* muxpipe(), line 147: continue without ++i
RetryTarget(i) == i

\* tee() gave EAGAIN: usleep(1000) and the same target again (lines 145-149)
TeeAgain ==
    /\ pc = "mux"
    /\ mi < ntee
    /\ naps < MaxNaps
    /\ \/ Size(pbuf[origin]) = 0 /\ WriterOpen
       \/ Room(teeto[mi]) = 0
       \/ teeto[mi] \notin DOMAIN peer
    /\ naps' = naps + 1
    /\ mi' = RetryTarget(mi)
    /\ UNCHANGED <<cfgvars, mainvars, pc, ok, topovars, winvars, min, teedv, teed,
                   drainvars, fdvars, datavars>>

\* tee() gave 0: the origin is empty and nobody writes to it (lines 141-143)
TeeZero ==
    /\ pc = "mux"
    /\ mi < ntee
    /\ Size(pbuf[origin]) = 0 /\ ~WriterOpen
    /\ pc' = "flush"
    /\ UNCHANGED <<cfgvars, mainvars, ok, topovars, winvars, muxvars, drainvars, fdvars, datavars>>

\* tee() gave -1 with another errno (lines 150-151, 290-292)
TeeError ==
    /\ pc = "mux"
    /\ mi < ntee
    /\ pc' = "cleanup"
    /\ UNCHANGED <<cfgvars, mainvars, ok, topovars, winvars, muxvars, drainvars, fdvars, datavars>>

\* tee() duplicated n bytes from the head of the origin into target mi
\* (lines 140, 154-158), and muxpipe() returns after the last target
TeeData ==
    /\ pc = "mux"
    /\ mi < ntee
    /\ written < Cap
    /\ ~Broken \/ (nsplice = 0 /\ L <= Granule)
    /\ \E n \in Amounts(MinOf(MinOf(Size(pbuf[origin]), Room(teeto[mi])), INT_MAX)) :
          LET t == teeto[mi]
              d == Take(pbuf[origin], n)
          IN  /\ IF t \in DOMAIN peer
                 THEN /\ pbuf' = [pbuf EXCEPT ![peer[t]] = Cat(@, d)]
                      /\ UNCHANGED recv
                 ELSE /\ recv' = [recv EXCEPT ![t] = Cat(@, d)]
                      /\ UNCHANGED pbuf
              /\ min' = NewMin(min, n)
              /\ teedv' = Append(teedv, n)
              /\ mi' = mi + 1
              /\ IF mi + 1 < ntee
                 THEN UNCHANGED <<pc, teed, di, dlen, moved, dfail>>
                 ELSE BeginDrain(MuxReturn(min'))
    /\ UNCHANGED <<cfgvars, mainvars, ok, topovars, winvars, naps, nfails, fdvars, srcoff>>

\* ------------------------------------------------------------ drain stage
\* a C bool seen as an int
BoolInt(b) == IF b THEN 1 ELSE 0

\* drain(), line 167: the test made on what spliceall() returned
DrainAbort(b) == BoolInt(b) = -1

\* spliceall(), line 61
SpliceFailed(w) == w <= 0

\* drain() once spliceall() has returned b for pair di (lines 166-172)
AfterSpliceall(b) ==
    IF DrainAbort(b)
    THEN pc' = "cleanup" /\ UNCHANGED <<di, dlen>>      \* return -1, goto error
    ELSE /\ di' = di + 1
         /\ dlen' = teed
         /\ pc' = IF di + 1 < nsplice THEN "drain" ELSE "window"

\* one splice() of spliceall() for the pair di (lines 57-69)
DrainSplice ==
    /\ pc = "drain"
    /\ di < nsplice
    /\ LET s == splicefrom[di]
           d == spliceto[di]
           c == pbuf[s]
       IN  \/ \E w \in (IF nfails < MaxFail THEN {-1} ELSE {}) \cup (IF Size(c) = 0 /\ s = origin /\ ~WriterOpen
                                  THEN {0} ELSE {}) :
                 /\ SpliceFailed(w)
                 /\ dfail' = [dfail EXCEPT ![di] = TRUE]
                 /\ nfails' = nfails + 1
                 /\ AfterSpliceall(FALSE)
                 /\ UNCHANGED <<moved, pbuf, recv>>
           \/ \E w \in Amounts(MinOf(dlen, Size(c))) :
                 /\ ~SpliceFailed(w)
                 /\ pbuf' = [pbuf EXCEPT ![s] = Drop(c, w)]
                 /\ recv' = [recv EXCEPT ![d] = Cat(@, Take(c, w))]
                 /\ moved' = [moved EXCEPT ![di] = @ + w]
                 /\ IF dlen - w = 0
                    THEN AfterSpliceall(TRUE)
                    ELSE dlen' = dlen - w /\ UNCHANGED <<pc, di>>
                 /\ UNCHANGED <<dfail, nfails>>
    /\ UNCHANGED <<cfgvars, mainvars, ok, topovars, winvars, muxvars, fdvars, srcoff>>

\* ---------------------------------------------------- cache window manager
Call(op, fd, off, len) == [op |-> op, fd |-> fd, off |-> off, len |-> len]

\* writeout(), lines 100-104
writeout(fd, offset, len) == <<Call("writeout", fd, offset, len)>>

\* discard(), lines 113-122
discard(fd, offset, len) == <<Call("discard", fd, offset, len)>>

\* a swapwindow() that evicts the old window before it queues the new one
swapwindowEvictFirst(fd, idx, window) ==
    (IF idx # 0 THEN discard(fd, window * (idx - 1), window) ELSE <<>>)
      \o writeout(fd, window * idx, window)

\* swapwindow(), lines 127-132
swapwindow(fd, idx, window) ==
    writeout(fd, window * idx, window)
      \o (IF idx # 0 THEN discard(fd, window * (idx - 1), window) ELSE <<>>)

\* a window manager that takes its descriptors from out[] instead
SpliceToOut(i) == out(i)

\* the value read from spliceto[i]
SpliceTo(i) == IF i < nsplice THEN spliceto[i] ELSE junk

\* the loops of lines 311-313 and 328-330, from index i
RECURSIVE SwapOthers(_)
SwapOthers(i) ==
    IF i >= nsplice THEN <<>>
    ELSE swapwindow(SpliceTo(i), widx, WINDOW) \o SwapOthers(i + 1)

RECURSIVE DiscardOthers(_)
DiscardOthers(i) ==
    IF i >= nsplice THEN <<>>
    ELSE discard(SpliceTo(i), WINDOW * (widx - 1), WINDOW + wfilled)
           \o DiscardOthers(i + 1)

\* a window manager that swaps as soon as one granule is in the window
WindowFullEarly(w) == w >= Granule

\* utee(), line 307: a window has filled up
WindowFull(w) == w >= WINDOW

\* utee(), lines 304-321, and back to the top of the loop
WindowCheck ==
    /\ pc = "window"
    /\ IF WindowFull(wfilled)
       THEN /\ calls' = calls \o swapwindow(SpliceTo(0), widx, WINDOW)
                          \o (IF g_force_no_thrash THEN SwapOthers(1) ELSE <<>>)
            /\ wfilled' = 0 + teed
            /\ widx' = widx + 1
       ELSE /\ wfilled' = wfilled + teed
            /\ UNCHANGED <<calls, widx>>
    /\ written' = written + teed
    /\ everFull' = (everFull \/ wfilled' >= WINDOW)
    /\ mi' = 0 /\ min' = SSIZE_MAX /\ teedv' = <<>> /\ naps' = 0
    /\ pc' = LoopTop
    /\ UNCHANGED <<cfgvars, mainvars, ok, topovars, teed, drainvars, fdvars, datavars>>

\* a final flush that leaves the last completed window out of its length
FlushCallsTailOnly ==
    IF widx # 0
    THEN discard(SpliceTo(0), WINDOW * (widx - 1), wfilled)
    ELSE <<>>

\* utee(), lines 324-332: discard the last slice of data
FlushCalls ==
    IF widx # 0
    THEN discard(SpliceTo(0), WINDOW * (widx - 1), WINDOW + wfilled)
           \o (IF g_force_no_thrash THEN DiscardOthers(1) ELSE <<>>)
    ELSE <<>>

\* utee(), lines 324-334, reached by the two break statements
Flush ==
    /\ pc = "flush"
    /\ calls' = calls \o FlushCalls
    /\ ok' = TRUE
    /\ pc' = "cleanup"
    /\ UNCHANGED <<cfgvars, mainvars, topovars, written, wfilled, widx, everFull, muxvars,
                   drainvars, fdvars, datavars>>

\* ---------------------------------------------------------------- teardown
\* the descriptors close() is called on by lines 338-345, g giving what the
\* unassigned slots hold
CloseLoop(gt, gf) ==
    {IF i - 1 < ntee THEN teeto[i - 1] ELSE gt[i] : i \in 1 .. nsplice - 1}
      \cup {IF i \in DOMAIN splicefrom THEN splicefrom[i] ELSE gf[i] : i \in 1 .. nsplice - 1}

\* the rounds of that loop that read a slot nothing was stored in
UnsetTee == {i \in 1 .. nsplice - 1 : i - 1 >= ntee}
UnsetFrom == {i \in 1 .. nsplice - 1 : i \notin DOMAIN splicefrom}

\* a teardown that forgets the write end of the adaptation conduit
CloseOriginRead == IF copyin THEN {originpipe[1]} ELSE {}

CloseOrigin == IF copyin THEN {originpipe[1], originpipe[2]} ELSE {}

\* utee(), lines 336-351
Cleanup ==
    /\ pc = "cleanup"
    /\ \E gt \in [UnsetTee -> Garbage], gf \in [UnsetFrom -> Garbage] :
          /\ closes' = closes \cup CloseOrigin \cup CloseLoop(gt, gf)
          /\ open' = open \ (CloseOrigin \cup CloseLoop(gt, gf))
    /\ pc' = "ret"
    /\ UNCHANGED <<cfgvars, mainvars, ok, topovars, winvars, muxvars, drainvars, created, peer,
                   datavars>>

\* what utee() returns (line 351)
RetVal == IF ok THEN written ELSE -1

Next ==
    \/ Main
    \/ Setup
    \/ XPipe
    \/ PipeTargets
    \/ InputSplice
    \/ Produce
    \/ MuxNone
    \/ TeeAgain
    \/ TeeZero
    \/ TeeError
    \/ TeeData
    \/ DrainSplice
    \/ WindowCheck
    \/ Flush
    \/ Cleanup

Spec == Init /\ [][Next]_vars

\* runs long enough to fill cache windows
\* the destination lists of the runs of SpecWin: no, one and two managed
\* files, with and without an output pipe
WinTopologies ==
    {<<TRUE>>, <<FALSE>>, <<TRUE, FALSE>>, <<FALSE, TRUE>>, <<FALSE, FALSE>>}

InitWin == InitRun(WinTopologies, {Granule, WINDOW, LongLen})

SpecWin == InitWin /\ [][Next]_vars

\* ================================================================ claims
Returned == pc = "ret"
Success == Returned /\ RetVal # -1

\* construction was abandoned: pipe() of line 213 or xpipe() of line 252 failed
RelayCreationFailed ==
    \/ pc \in {"cleanup", "ret"} /\ ri < nsplice
    \/ pc = "ret" /\ copyin /\ originpipe = <<>>

RECURSIVE SeqMin(_)
SeqMin(q) ==
    IF Len(q) = 1 THEN q[1] ELSE MinOf(q[1], SeqMin(Tail(q)))

\* C1 (as claimed): whenever utee reports success, every destination has
\* received exactly the source's L bytes, in order, none missing or doubled.
C1_SuccessMeansExactCopy ==
    Success => \A fd \in OutFds : recv[fd] = Whole(L)

\* C2 (as claimed): once a splice() of drain has returned zero or less before
\* the chunk was moved, utee processes nothing more and ends in FAILED; it
\* never reports success after a failed drain.
C2_FailedDrainAborts ==
    nfails > 0 => pc \in {"cleanup", "ret"} /\ ~ok

\* the chunk of this iteration is the least tee() result, and no drain source
\* holds less than what is still to be moved from it
ChunkIsMinAndPresent ==
    /\ Len(teedv) = ntee
    /\ teed > 0
    /\ teed = SeqMin(teedv)
    /\ pc = "drain" =>
          /\ moved[di] + dlen = teed
          /\ dlen <= Size(pbuf[splicefrom[di]])
          /\ \A j \in di + 1 .. nsplice - 1 : teed <= Size(pbuf[splicefrom[j]])

\* the pairs drain() is through with in this iteration
DrainedPairs == {i \in 0 .. nsplice - 1 : pc = "window" \/ i < di}

C4_CreatedPipesClosed ==
    Returned =>
        /\ created \cap open = {}
        /\ created \subseteq closes
        /\ RelayCreationFailed =>
              /\ RetVal = -1
              /\ \A fd \in OutFds : recv[fd] = <<>>
              /\ copyin => srcoff = 0

\* xpipe() failed at the second round: the adaptation conduit and one relay
\* had been created, and utee has returned
C4_Witness ==
    /\ Returned
    /\ copyin /\ nsplice = 3 /\ ri = 2
    /\ Cardinality(created) = 4

\* ------------------------------------------------------ the window manager
CallIdx == DOMAIN calls
IsDiscard(c) == c.op = "discard"
IsWriteout(c) == c.op = "writeout"
\* swapwindow() evicts exactly one window; the final flush evicts more
IsSwapDiscard(c) == IsDiscard(c) /\ c.len = WINDOW
IsFinalDiscard(c) == IsDiscard(c) /\ c.len # WINDOW

\* writeout for the window at byte offset off was issued on fd before call p
WriteoutBefore(p, fd, off) ==
    \E q \in CallIdx : q < p /\ IsWriteout(calls[q]) /\ calls[q].fd = fd /\ calls[q].off = off

OnlyDiscardOfItsWindow(p) ==
    \A q \in CallIdx :
        (q # p /\ IsDiscard(calls[q]) /\ calls[q].fd = calls[p].fd) => calls[q].off # calls[p].off

\* C5 (as claimed): on every managed destination the discard of window k is
\* issued once only and strictly after the writeout of window k+1, for every
\* window ever evicted, the one evicted by the end-of-stream flush included.
C5_EveryEvictAfterNextWriteout ==
    \A p \in CallIdx :
        IsDiscard(calls[p]) =>
            /\ OnlyDiscardOfItsWindow(p)
            /\ WriteoutBefore(p, calls[p].fd, calls[p].off + WINDOW)

\* C5 (amended): the discard of window k is issued once only; a discard made
\* by swapwindow comes strictly after the writeout of window k+1. The discard
\* of the end-of-stream flush, which starts at the last completed window, comes
\* after the writeout of that window itself: the writeout of the window after
\* it is never issued.
C5_MidStreamEvictAfterNextWriteout ==
    \A p \in CallIdx :
        IsDiscard(calls[p]) =>
            /\ OnlyDiscardOfItsWindow(p)
            /\ IsSwapDiscard(calls[p]) =>
                  WriteoutBefore(p, calls[p].fd, calls[p].off + WINDOW)
            /\ IsFinalDiscard(calls[p]) =>
                  /\ WriteoutBefore(p, calls[p].fd, calls[p].off)
                  /\ \A q \in CallIdx :
                        ~(IsWriteout(calls[q]) /\ calls[q].fd = calls[p].fd
                            /\ calls[q].off = calls[p].off + WINDOW)

\* a run with the flag set and two managed files ended after two window
\* swaps: window 0 was evicted mid-stream and window 1 by the final flush
C5_Witness ==
    /\ Success
    /\ g_force_no_thrash /\ nsplice = 2 /\ widx = 2
    /\ \E p \in CallIdx : IsSwapDiscard(calls[p]) /\ calls[p].fd = SpliceTo(1)
    /\ \E p \in CallIdx : IsFinalDiscard(calls[p]) /\ calls[p].fd = SpliceTo(1)

\* the loop was left by one of its break statements
EndOfStream == pc \in {"cleanup", "ret"} /\ ok

\* the calls that are the final flush of the managed destination 0
FinalFlushes ==
    {p \in CallIdx :
        calls[p] = Call("discard", SpliceTo(0), WINDOW * (widx - 1), WINDOW + wfilled)}

\* C6 (as claimed): at end-of-stream, if wfilled reached or exceeded WINDOW at
\* least once during the run, exactly one final discard is issued on the
\* managed destination, from (widx - 1) * WINDOW and WINDOW + wfilled long.
C6_FlushIfWindowEverFull ==
    (EndOfStream /\ everFull) => Cardinality(FinalFlushes) = 1

\* C6 (amended): at end-of-stream, if window_index > 0, that is if swapwindow
\* ran, which takes one more chunk after wfilled reached WINDOW, exactly one
\* final discard is issued on drain target 0, from (widx - 1) * WINDOW and
\* WINDOW + wfilled long, after every swapwindow call; if window_index = 0 no
\* call at all is issued, also when wfilled has reached WINDOW.
C6_FlushIfWindowSwapped ==
    EndOfStream =>
        IF widx > 0
        THEN /\ Cardinality(FinalFlushes) = 1
             /\ \A p \in FinalFlushes : \A q \in CallIdx : IsWriteout(calls[q]) => q < p
             /\ \A q \in CallIdx :
                   (IsFinalDiscard(calls[q]) /\ calls[q].fd = SpliceTo(0)) => q \in FinalFlushes
        ELSE calls = <<>>

\* a run over an input of 2.5 windows ended after two swaps with its flush
C6_Witness ==
    /\ Success
    /\ nsplice >= 1 /\ widx = 2 /\ wfilled > 0
    /\ FinalFlushes # {}

\* the calls made on destination fd, without the descriptor
RECURSIVE CallsOn(_, _)
CallsOn(fd, q) ==
    IF q = <<>> THEN <<>>
    ELSE (IF Head(q).fd = fd THEN << <<Head(q).op, Head(q).off, Head(q).len>> >> ELSE <<>>)
           \o CallsOn(fd, Tail(q))

\* C9 (as claimed): a transfer of 2.5 * WINDOW bytes makes, whatever the chunk
\* sizes, exactly two swapwindow cycles (indexes 0 and 1) and then one final
\* discard whose range covers the trailing half window up to the end of the
\* written data.
C9_TwoSwapsAndFlushToTheEnd ==
    (Success /\ nsplice >= 1 /\ written = LongLen) =>
        LET c == CallsOn(SpliceTo(0), calls)
        IN  /\ Len(c) = 4
            /\ SubSeq(c, 1, 3) =
                  << <<"writeout", 0, WINDOW>>,
                     <<"writeout", WINDOW, WINDOW>>, <<"discard", 0, WINDOW>> >>
            /\ c[4][1] = "discard" /\ c[4][2] = WINDOW
            /\ c[4][2] + c[4][3] = written

\* the first terminal destination of the list, which is what spliceto[0]
\* holds; with no terminal destination the slot was never assigned
FirstTerminal == IF Terminals(0) # <<>> THEN Terminals(0)[1] ELSE junk
TerminalFds == {out(i) : i \in {j \in 0 .. nout - 1 : ~outFifo[j + 1]}}

\* C10 (as claimed): without the flag every writeout and discard of a run is
\* issued on destination 0, the primary output, and nowhere else; with the
\* flag the same calls, same ranges, are issued on every terminal destination.
C10_CallsOnDestinationZero ==
    /\ ~g_force_no_thrash => \A p \in CallIdx : calls[p].fd = out(0)
    /\ g_force_no_thrash =>
          \A fd \in TerminalFds : CallsOn(fd, calls) = CallsOn(out(0), calls)

\* C10 (amended): without the flag every writeout and discard of a run is
\* issued on drain target 0 and nowhere else: the first terminal destination
\* of the list, which is destination 0 only when that one is terminal, and the
\* content of the unassigned slot spliceto[0] when no destination is terminal.
\* With the flag the same calls, same ranges, are issued on every terminal
\* destination, and on no other descriptor.
C10_CallsOnFirstTerminal ==
    /\ ~g_force_no_thrash => \A p \in CallIdx : calls[p].fd = FirstTerminal
    /\ g_force_no_thrash =>
          /\ \A fd \in TerminalFds : CallsOn(fd, calls) = CallsOn(FirstTerminal, calls)
          /\ \A p \in CallIdx : calls[p].fd \in TerminalFds \cup {FirstTerminal}

\* a pipe as destination 0 and a file after it: the window calls, a swap
\* among them, went to the file
C10_Witness ==
    /\ Success
    /\ outFifo = <<TRUE, FALSE>> /\ ~g_force_no_thrash
    /\ widx = 2
    /\ \A p \in CallIdx : calls[p].fd = out(1)

\* ------------------------------------------------------------- scenarios
\* C7 (as claimed): a pipe source and one pipe destination: no relay is
\* created, the destination receives every byte of the source once, in order,
\* and the engine is DONE once the source is exhausted.
C7_PipeToPipeCopiesOnce ==
    (srcFifo /\ outFifo = <<TRUE>>) =>
        /\ created = {}
        /\ Size(recv[out(0)]) <= L /\ recv[out(0)] = Whole(Size(recv[out(0)]))
        /\ Success => recv[out(0)] = Whole(L)

\* the topology of a run is built
Built == pc \notin {"main", "exit", "start", "relays"} /\ ~RelayCreationFailed

C8_Case == ~srcFifo /\ outFifo \in {<<TRUE, FALSE>>, <<FALSE, TRUE>>}

NapStep == naps' = naps + 1
TeeErrorStep == pc = "mux" /\ pc' = "cleanup"

\* C11: when tee() into target i gives EAGAIN, muxpipe stays at target i: no
\* error is reported, i does not advance, no target before i is given data
\* again and nothing moves; a tee() error other than EAGAIN takes utee
\* straight to its teardown with ok unset, from where it returns -1.
C11_RetrySameTargetElseFail ==
    [][/\ NapStep =>
             /\ pc' = "mux" /\ mi' = mi /\ ok' = ok
             /\ UNCHANGED <<min, teedv, pbuf, recv, srcoff>>
       /\ pc' = "mux" => Len(teedv') = mi'
       /\ TeeErrorStep => ~ok' /\ UNCHANGED <<recv, pbuf>>
       /\ (pc = "cleanup" /\ ~ok) => (pc' = "ret" /\ RetVal' = -1)]_vars

\* a pass over two targets slept once, and stands at the second target with
\* the first one given data exactly once
C11_Witness ==
    /\ pc = "mux" /\ ntee = 2
    /\ naps = 1 /\ mi = 1 /\ Len(teedv) = 1

\* ---------------------------------------------------------- small transfers
\* C12: while the running total of bytes transferred is below WINDOW, the end
\* of the stream included, no writeout and no discard has been issued on any
\* descriptor, and the window index is still zero.
C12_NoCallsBelowOneWindow ==
    written < WINDOW => (calls = <<>> /\ widx = 0)

\* a run over an input shorter than a window moved it to two files and ended
\* without a call
C12_Witness ==
    /\ Success
    /\ nsplice = 2 /\ L = Granule /\ written = L
    /\ \A fd \in OutFds : recv[fd] = Whole(L)
    /\ calls = <<>>

\* ---------------------------------------------------------------- ownership
\* C13 (as claimed): with a pipe as source, used as the origin conduit, utee
\* calls close on the source descriptor on no exit path; the origin conduit is
\* closed only when the engine made it.
C13_BorrowedSourceNeverClosed ==
    /\ srcFifo => STDIN_FILENO \notin closes
    /\ (pc \notin {"main", "exit", "start"} /\ origin \in closes) => copyin

\* ------------------------------------------------------------ precondition
\* C14: when standard output is open in append mode the program refuses to
\* start: main reports it on stderr and exits with EXIT_FAILURE, utee is never
\* entered, no pipe is made and no byte reaches any destination.
C14_AppendModeRefused ==
    o_append =>
        /\ pc \in {"main", "exit"}
        /\ pc = "exit" => (exitcode = <<EXIT_FAILURE>> /\ Len(errout) = 1)
        /\ created = {} /\ srcoff = 0 /\ calls = <<>>
        /\ \A fd \in OutFds : recv[fd] = <<>>

\* the program has exited on an append-mode standard output
C14_Witness ==
    /\ o_append /\ pc = "exit"
    /\ exitcode = <<EXIT_FAILURE>> /\ errout # <<>>

\* ----------------------------------------------------------------- topology
\* the number of slots of the two target arrays that hold descriptor fd
TimesAssigned(fd) ==
    Cardinality({k \in 0 .. ntee - 1 : teeto[k] = fd})
      + Cardinality({k \in 0 .. nsplice - 1 : spliceto[k] = fd})

AssignedOnce ==
    \A i \in 0 .. nout - 1 :
        /\ TimesAssigned(out(i)) = 1
        /\ outFifo[i + 1] <=> \E k \in 0 .. ntee - 1 : teeto[k] = out(i)

\* the drain pairs that take their data from the origin conduit
OriginPairs == {k \in 0 .. nsplice - 1 : splicefrom[k] = origin}

\* C15 (as claimed): in every built topology each destination is assigned
\* exactly once, as duplication target or as drain target, and drain pair 0
\* exists, from the origin conduit to destination 0, so that exactly one
\* drain pair consumes the origin.
C15_EveryTopologyDrainsOrigin ==
    Built =>
        /\ AssignedOnce
        /\ nsplice >= 1
        /\ splicefrom[0] = origin /\ SpliceTo(0) = out(0)
        /\ Cardinality(OriginPairs) = 1

\* the relays of a run: each is one pipe() call, two descriptors
NumRelays == Cardinality(created) \div 2
\* T and A of the relay count
NumTerminal == Len(Terminals(0))
Adapted == IF srcFifo THEN 0 ELSE 1
RelaysNeeded == (IF NumTerminal > 1 THEN NumTerminal - 1 ELSE 0) + Adapted

\* C16: the relays of a built topology are one per terminal destination
\* beyond the first, plus one when the source is no pipe; a pipe destination
\* adds none: it is a duplication target itself. Before and without a built
\* topology there are never more.
C16_RelayCount ==
    /\ Cardinality(created) = 2 * NumRelays
    /\ NumRelays <= RelaysNeeded
    /\ Built =>
          /\ NumRelays = RelaysNeeded
          /\ ntee = RelaysNeeded - Adapted + Len(Fifos(0))
          /\ \A k \in 0 .. ntee - 1 : teeto[k] \in OutFds <=> k >= RelaysNeeded - Adapted

\* a file source and the destinations file, pipe, file: the adaptation relay
\* and one relay for the second file, none for the pipe
C16_Witness ==
    /\ Success
    /\ ~srcFifo /\ outFifo = <<FALSE, TRUE, FALSE>>
    /\ NumRelays = 2 /\ ntee = 2
    /\ teeto[1] = out(1)

\* -------------------------------------------------------------- termination
\* no splice() of drain has failed, the source has given its last byte and
\* the running total has reached its length
AllTransferred == nfails = 0 /\ srcoff = L /\ written >= L

\* a pass of muxpipe has duplicated data that is not accounted for yet
Duplicating == (pc = "mux" /\ mi > 0) \/ pc \in {"drain", "window"}

\* C17 (as claimed, in the form a finite run refutes): the loop does not go on
\* duplicating once the source is exhausted; with no hard error, when all L
\* bytes of the input have been transferred no tee() gives data any more, so
\* that the next pass ends the loop.
C17_NoDuplicationAfterExhaustion ==
    AllTransferred => ~Duplicating

\* --------------------------------------------------------------- end state
\* the read ends of the origin conduit and of the relays
Conduits == {origin} \cup {splicefrom[k] : k \in DOMAIN splicefrom}

\* C18 (as claimed): whenever the loop is left through one of its clean
\* end-of-stream exits, the origin conduit and every relay are empty: each
\* byte taken from the source or duplicated into a relay has been drained
\* before success is reported.
C18_ConduitsEmptyAtEndOfStream ==
    EndOfStream => \A fd \in Conduits : pbuf[fd] = <<>>

\* C19 (as claimed): after every completed loop iteration and at the end of
\* the stream the running total is window_index * WINDOW plus the bytes filled
\* in the current window, whatever the chunk sizes, a chunk that straddles a
\* window boundary included, in every run without a failed call.
C19_WrittenIsWindowsPlusFill ==
    nfails = 0 => written = widx * WINDOW + wfilled

\* C20 (as claimed): the teardown calls close only on descriptors the engine
\* made and stored: on no exit path, a failed relay creation at round k
\* included, on a destination, on the source, or on the value of a teeto /
\* splicefrom slot nothing was stored in.
C20_TeardownClosesOnlyOwn ==
    /\ closes \subseteq created
    /\ closes \cap (OutFds \cup {STDIN_FILENO}) = {}
    /\ Returned => (UnsetTee = {} /\ UnsetFrom = {})

====
